---- MODULE Spec2Model ----
(***************************************************************************)
(* ESP32CAM-RTSP-Multi: one RTSP client session (RTSPClientSession) with   *)
(* its TimecodeManager, its UDP / TCP-interleaved RTP sender and the       *)
(* frame buffers it borrows from CameraManager.                            *)
(*                                                                         *)
(* handle() is split at its own sequence points: the request part          *)
(* (processRequest), the scheduling part (adaptive framerate, interval     *)
(* test) and the frame sender, which advances one UDP attempt or one       *)
(* TCP-interleaved fragment per step.  pc is the position inside handle(). *)
(* Results of network calls, of the frame source and of the clock are      *)
(* inputs chosen with \E.                                                  *)
(*                                                                         *)
(* TLC integers are 32 bit wide, so a uint32_t is kept as a pair           *)
(* <<hi, lo>> of 16-bit halves and its arithmetic is done on the halves.   *)
(***************************************************************************)
EXTENDS Integers, Naturals, Sequences, FiniteSets, TLC

\* ---------------------------------------------------------------- config.h
RTSP_FPS == 15
RTSP_TIMECODE_MODE == 1
RTSP_CLOCK_RATE == 90000
RTSP_FORCE_INCREASING_TIMECODES == 1
RTSP_UDP_MAX_RETRIES == 2
RTSP_UDP_TCP_FALLBACK == 1
FORCE_TCP == 2
RTSP_ADAPTIVE_FRAMERATE == 1
RTSP_UDP_ERROR_THRESHOLD == 5
RTSP_MIN_FRAMERATE == 10
RTSP_MAX_FRAGMENT_SIZE == 600
RTSP_UDP_AUTO_RESET == 1
RTSP_UDP_RESET_THRESHOLD == 10

DEFAULT_CSEQ == 1

\* ------------------------------------------------- RTSPClientSession.cpp
RTP_HEADER_SIZE == 12
JPEG_HEADER_SIZE == 8
TCP_MAX_PACKET_SIZE == 1400
SERVER_PORT_BASE == 20000
SERVER_PORT_SPAN == 10000

\* widths of uint16_t and of one half of a uint32_t
UINT16_MOD == 65536

\* ----------------------------------------------------- NanoRTSPServer.cpp
MAX_CLIENTS == 5

\* ------------------------------------------------------------------ bounds
\* sessions the server creates in one behaviour
MaxSessions == 5
\* frames one PLAY phase may start before the model stops starting frames
MaxFrames == 2
\* generateTimecode calls per behaviour of the timecode specification
MaxTcCalls == 4
MaxPeers == 2
MaxPeerFrames == 2

\* ---------------------------------------------------- uint32_t arithmetic
U32(n) == <<(n \div UINT16_MOD) % UINT16_MOD, n % UINT16_MOD>>

U32Zero == <<0, 0>>

U32IsZero(a) == a[1] = 0 /\ a[2] = 0

U32Less(a, b) == a[1] < b[1] \/ (a[1] = b[1] /\ a[2] < b[2])

U32Leq(a, b) == a = b \/ U32Less(a, b)

\* a + k mod 2^32, for 0 <= k < 2^16
U32AddSmall(a, k) ==
    LET lo == a[2] + k
    IN  <<(a[1] + (lo \div UINT16_MOD)) % UINT16_MOD, lo % UINT16_MOD>>

\* a * c mod 2^32, for 0 <= c < 2^15
U32MulSmall(a, c) ==
    LET lo == a[2] * c
    IN  <<(a[1] * c + (lo \div UINT16_MOD)) % UINT16_MOD, lo % UINT16_MOD>>

\* a / d (integer division), for 0 < d < 2^15
U32DivSmall(a, d) ==
    LET r == a[1] % d
    IN  <<a[1] \div d, (r * UINT16_MOD + a[2]) \div d>>

\* a | 0x80000000
U32SetTopBit(a) == <<IF a[1] >= 32768 THEN a[1] ELSE a[1] + 32768, a[2]>>

\* ------------------------------------------------------- TimecodeManager
\* RTSP_CLOCK_RATE / RTSP_FPS: one frame period in RTP clock units
FramePeriod == RTSP_CLOCK_RATE \div RTSP_FPS

\* msToRTPTimestamp: (ms * RTSP_CLOCK_RATE) / 1000 in uint32_t.
\* 90000 = 300 * 300, and (ms * 300 mod 2^32) * 300 mod 2^32 = ms * 90000 mod 2^32
msToRTPTimestamp(ms) ==
    U32DivSmall(U32MulSmall(U32MulSmall(ms, 300), RTSP_CLOCK_RATE \div 300), 1000)

\* getWallClockMs: elapsed = millis() - start_time_ms, floored to 1
getWallClockMs(elapsed) == IF U32IsZero(elapsed) THEN U32(1) ELSE elapsed

\* getCurrentTimestamp
getCurrentTimestamp(elapsed) ==
    LET rtp_timestamp == msToRTPTimestamp(getWallClockMs(elapsed))
    IN  IF U32IsZero(rtp_timestamp) THEN U32(FramePeriod) ELSE rtp_timestamp

\* calculatePTS
calculatePTS(frame_number) ==
    LET pts == U32MulSmall(frame_number, FramePeriod)
    IN  IF U32IsZero(pts) /\ ~U32IsZero(frame_number) THEN U32(FramePeriod) ELSE pts

\* generateTimecode, lines 122-126: updateFrameCounter, then never 0
BumpFrameCounter(fc) ==
    LET inc == U32AddSmall(fc, 1)
    IN  IF U32IsZero(inc) THEN U32(1) ELSE inc

\* generateTimecode, lines 129-170: the PTS of the mode, never 0
ModePTS(mode, fc, elapsed) ==
    LET raw == IF mode \in {1, 2} THEN calculatePTS(fc) ELSE getCurrentTimestamp(elapsed)
    IN  IF U32IsZero(raw) THEN U32(FramePeriod) ELSE raw

\* generateTimecode without the block of lines 177-187
ForceIncreasingSkipped(pts, last) == pts

\* generateTimecode, lines 177-187: forced increase over the previous PTS
ForceIncreasing(pts, last) ==
    IF RTSP_FORCE_INCREASING_TIMECODES = 1 /\ U32Leq(pts, last)
    THEN U32AddSmall(last, FramePeriod)
    ELSE pts

\* the PTS generateTimecode returns, given the counter after its increment
GeneratePTS(mode, fc, last, elapsed) == ForceIncreasing(ModePTS(mode, fc, elapsed), last)


\* ------------------------------------------------------------------ state
VARIABLES
    pc,                   \* position inside handle(): idle, sched, send, udp, ...
    connected,            \* client.connected()
    playing,
    useTcpInterleaved,
    clientRtpPort,
    clientRtcpPort,
    clientRtpIpSet,       \* clientRtpIp holds client.remoteIP()
    rtpChannel,
    rtcpChannel,
    serverUdpPort,
    udpBound,             \* the WiFiUDP socket is bound to serverUdpPort
    sequenceNumber,
    udpErrorCount,
    currentFramerate,
    frameInterval,
    timecode_mode,
    udpTcpFallback,       \* RTSP_UDP_TCP_FALLBACK of the build: 0, 1 or 2
    intervalRunning,      \* lastFrameTime is the start of a tick less than frameInterval ago
    frame_counter,        \* uint32_t as <<hi, lo>>
    last_frame_timestamp, \* uint32_t as <<hi, lo>>
    currentPts,           \* currentTimecode.pts, uint32_t as <<hi, lo>>
    frame,                \* the running sendRTPFrame invocation (UDP loop)
    tframe,               \* the running sendRTPFrameTCP invocation
    out,                  \* what the last step put on the wire or gave back
    phase,                \* history: the session state of the RTSP state table
    setupHist,            \* history: none / failed (500, never 200) / ok
    promoted,             \* history: the UDP->TCP fallback has promoted this session
    lastSeq,              \* history: sequence number of the last packet of this PLAY, -1 if none
    tcPrev,               \* history: PTS returned by the generateTimecode call before the last
    tcCalls,              \* history: generateTimecode calls since resetFrameCounter (0, 1, 2 = more)
    clients,              \* NanoRTSPServer::clients, a sequence of sessions [id, connected, playing]
    sessionCounter,       \* static sessionCounter of generateSessionId
    srvOut,               \* what the last handleClients did
    loopAt,               \* where loop() of main.cpp is: "loop", or "mjpeg" inside handleMJPEG
    httpClientConnected,  \* server.client().connected() of the HTTP MJPEG viewer
    httpOut               \* what the HTTP server sent last

sessVars == <<connected, playing, useTcpInterleaved, clientRtpPort, clientRtcpPort,
              clientRtpIpSet, rtpChannel, rtcpChannel, serverUdpPort, udpBound,
              sequenceNumber, udpErrorCount, currentFramerate, frameInterval>>

tcVars == <<frame_counter, last_frame_timestamp, currentPts, tcPrev, tcCalls>>

histVars == <<phase, setupHist, promoted, lastSeq>>

\* loop() of main.cpp and the HTTP MJPEG server it calls
loopVars == <<loopAt, httpClientConnected, httpOut>>

srvVars == <<clients, sessionCounter, srvOut, loopVars>>

\* the session this module follows step by step
sessionVars == <<pc, sessVars, timecode_mode, udpTcpFallback, intervalRunning, tcVars, frame, tframe, out, histVars>>

vars == <<sessionVars, srvVars>>

\* ------------------------------------------------------------ input sets
\* Transport headers of a SETUP: "none" is a request without the header;
\* chan / ports are <<>> when interleaved= / client_port= is absent
Transports ==
    { [proto |-> "tcp", chan |-> <<>>,     ports |-> <<>>],
      [proto |-> "tcp", chan |-> <<2, 3>>, ports |-> <<>>],
      [proto |-> "udp", chan |-> <<>>,     ports |-> <<>>],
      [proto |-> "udp", chan |-> <<>>,     ports |-> <<5000, 5001>>],
      [proto |-> "udp", chan |-> <<>>,     ports |-> <<6000, 0>>],
      [proto |-> "udp", chan |-> <<>>,     ports |-> <<0, 6001>>] }

\* the value of esp_random() % 10000 the model draws
RandomOffsets == {SERVER_PORT_SPAN - 1}

\* fb->len of the frames the camera delivers: one and three UDP fragments,
\* one and two TCP fragments
\* MAX_PAYLOAD_SIZE of sendRTPFrame and of sendRTPFrameTCP
UdpMaxPayload == RTSP_MAX_FRAGMENT_SIZE - RTP_HEADER_SIZE - JPEG_HEADER_SIZE

TcpMaxPayload == TCP_MAX_PACKET_SIZE - RTP_HEADER_SIZE - JPEG_HEADER_SIZE

FrameSizes == {UdpMaxPayload, TcpMaxPayload + 1}

\* what esp_camera_fb_get hands to captureForced: nothing (got = FALSE), or a
\* buffer of len bytes; dims: width and height are not 0; soi: bytes 0..1 are
\* FF D8; eoi: the last two bytes are FF D9
Buffer(got, len, dims, soi, eoi) ==
    [got |-> got, len |-> len, dims |-> dims, soi |-> soi, eoi |-> eoi]

NoBuffer == Buffer(FALSE, 0, FALSE, FALSE, FALSE)

\* a JPEG of each frame size, and one buffer per way of being invalid
Buffers ==
    {NoBuffer}
    \cup {Buffer(TRUE, len, TRUE, TRUE, TRUE) : len \in FrameSizes}
    \cup {Buffer(TRUE, 0, TRUE, FALSE, FALSE),
          Buffer(TRUE, UdpMaxPayload, FALSE, TRUE, TRUE),
          Buffer(TRUE, UdpMaxPayload, TRUE, FALSE, TRUE),
          Buffer(TRUE, UdpMaxPayload, TRUE, TRUE, FALSE),
          Buffer(TRUE, 3, TRUE, FALSE, FALSE)}

\* millis() - start_time_ms at a generateTimecode call: 0, one frame later,
\* and past the point where ms * 90000 overflows 32 bits
WallClocks == {U32(0), U32(67), U32(47722)}

\* frame counters from which the model starts counting: a fresh PLAY, a long
\* PLAY whose sequence number is about to wrap, a PLAY whose PTS is about to wrap
SeqWrapFrames == U32((UINT16_MOD - 1) \div 3)

PtsWrapFrames == U32(715825)

\* 2^28 - 2 frames: two frames before frame_number * 6000 is a multiple of 2^32
ZeroPtsFrames == U32(268435454)

\* five frames sent twice, by UDP and again TCP-interleaved
DegradedFrames == U32(2 * RTSP_UDP_ERROR_THRESHOLD)
NearResetFrames == U32(2 * (RTSP_UDP_RESET_THRESHOLD - 1))

FrameSeeds == {U32Zero, SeqWrapFrames, PtsWrapFrames, ZeroPtsFrames, DegradedFrames,
               NearResetFrames}

WithinBudget(fc, n) == \E b \in FrameSeeds : \E i \in 0..(n - 1) : fc = U32AddSmall(b, i)

\* CSeq headers of a request: absent, "CSeq: 42", "CSeq: x".  text is what
\* follows the colon, as character codes
CSeqHeaders ==
    { [present |-> FALSE, text |-> <<>>],
      [present |-> TRUE,  text |-> <<32, 52, 50>>],
      [present |-> TRUE,  text |-> <<32, 120>>] }

\* the CSeq header of the requests of a streaming session
SessionCSeqs == { [present |-> TRUE, text |-> <<32, 52, 50>>] }

\* ------------------------------------------------------- request parsing
\* String::trim, leading part
RECURSIVE TrimLeft(_)
TrimLeft(s) == IF s # <<>> /\ Head(s) = 32 THEN TrimLeft(Tail(s)) ELSE s

\* the decimal digits at the head of s, accumulated as atol does
RECURSIVE DigitsValue(_, _)
DigitsValue(s, acc) ==
    IF s = <<>> \/ Head(s) \notin 48 .. 57 THEN acc
    ELSE DigitsValue(Tail(s), acc * 10 + (Head(s) - 48))

\* String::toInt: optional sign, then digits; 0 when there is no digit
toInt(s) ==
    IF s # <<>> /\ Head(s) = 45 THEN 0 - DigitsValue(Tail(s), 0)
    ELSE IF s # <<>> /\ Head(s) = 43 THEN DigitsValue(Tail(s), 0)
    ELSE DigitsValue(s, 0)

\* processRequest, lines 218-233: DEFAULT_CSEQ without a CSeq header, else
\* toInt of the trimmed value
ParseCSeqAlwaysDefault(h) == DEFAULT_CSEQ

ParseCSeq(h) == IF h.present THEN toInt(TrimLeft(h.text)) ELSE DEFAULT_CSEQ

\* ---------------------------------------------------------------- records
NoOut == [kind |-> "none"]

\* sendRTSPResponse: status line and CSeq header; body is the SDP that
\* DESCRIBE appends.  With the response go the request it answers (its CSeq
\* header, whether its request line named a stream path) and the session
\* state the request found
Resp(method, status, h, path) ==
    [kind |-> "resp", method |-> method, status |-> status, cseq |-> ParseCSeq(h),
     hdr |-> h, body |-> (method = "DESCRIBE" /\ status = 200), path |-> path,
     found |-> [phase |-> phase, seq |-> sequenceNumber, err |-> udpErrorCount,
                fps |-> currentFramerate, fc |-> frame_counter]]

\* sendRTPFrame locals: fb->len, offset, retryCount, frameSentSuccessfully,
\* fragments_sent; returns counts the returns of fb to the frame source
NoFrame == [len |-> 0, offset |-> 0, retry |-> 0, ok |-> TRUE, returns |-> 0, sent |-> 0]

\* sendRTPFrameTCP locals; nested: called from sendRTPFrame after its UDP loop
NoTFrame == [len |-> 0, offset |-> 0, returns |-> 0, nested |-> FALSE, sent |-> 0]

\* ---------------------------------------------------------- CameraManager
\* captureForced, lines 177-191: the buffer is handed to the caller
captureForcedChecksSoiAlways(fb) ==
    /\ fb.got
    /\ ~(fb.len = 0 \/ ~fb.dims)
    /\ fb.soi
    /\ ~(fb.len >= 4 /\ ~fb.eoi)

captureForced(fb) ==
    /\ fb.got
    /\ ~(fb.len = 0 \/ ~fb.dims)
    /\ ~(fb.len >= 4 /\ (~fb.soi \/ ~fb.eoi))

\* captureForced, lines 180 and 189: esp_camera_fb_return of a rejected buffer
CaptureReturns(fb) == IF fb.got /\ ~captureForced(fb) THEN 1 ELSE 0

Min(a, b) == IF a < b THEN a ELSE b

Max(a, b) == IF a > b THEN a ELSE b

\* ------------------------------------------------------------------- Init
\* RTSPClientSession constructor and member initialisers, TimecodeManager constructor
SessionInit ==
    /\ pc = "idle"
    /\ connected = TRUE
    /\ playing = FALSE
    /\ useTcpInterleaved = FALSE
    /\ clientRtpPort = 0
    /\ clientRtcpPort = 0
    /\ clientRtpIpSet = FALSE
    /\ rtpChannel = 0
    /\ rtcpChannel = 1
    /\ serverUdpPort = 0
    /\ udpBound = FALSE
    /\ sequenceNumber = 0
    /\ udpErrorCount = 0
    /\ currentFramerate = RTSP_FPS
    /\ frameInterval = 1000 \div RTSP_FPS
    /\ frame = NoFrame
    /\ tframe = NoTFrame
    /\ out = NoOut
    /\ phase = "Init"
    /\ setupHist = "none"
    /\ promoted = FALSE
    /\ lastSeq = -1

TimecodeInit ==
    /\ frame_counter = U32Zero
    /\ last_frame_timestamp = U32Zero
    /\ currentPts = U32Zero
    /\ tcPrev = U32Zero
    /\ tcCalls = 0

\* NanoRTSPServer constructor: no client; no tick has run
NoTick == [incoming |-> FALSE, refused |-> FALSE, written |-> 0, created |-> 0,
           stepped |-> <<>>]

ServerInit ==
    /\ clients = <<>>
    /\ sessionCounter = 0
    /\ srvOut = NoTick
    /\ loopAt = "loop"
    /\ httpClientConnected = FALSE
    /\ httpOut = "none"

Init ==
    /\ SessionInit
    /\ TimecodeInit
    /\ timecode_mode = RTSP_TIMECODE_MODE
    /\ udpTcpFallback = RTSP_UDP_TCP_FALLBACK
    /\ intervalRunning = FALSE
    /\ ServerInit

\* ------------------------------------------------------- TimecodeManager
\* generateTimecode as called by updateTimecodeForFrame: the new frame
\* counter, PTS and last_frame_timestamp
UpdateTimecode(elapsed) ==
    LET fc  == BumpFrameCounter(frame_counter)
        pts == GeneratePTS(timecode_mode, fc, last_frame_timestamp, elapsed)
    IN  /\ frame_counter' = fc
        /\ last_frame_timestamp' = pts
        /\ currentPts' = pts
        /\ tcPrev' = currentPts
        /\ tcCalls' = Min(tcCalls + 1, 2)

\* PLAY without the call of line 478
ResetFrameCounterSkipped == UNCHANGED tcVars

\* resetFrameCounter
ResetFrameCounter ==
    /\ frame_counter' = U32Zero
    /\ last_frame_timestamp' = U32Zero
    /\ tcCalls' = 0
    /\ tcPrev' = U32Zero
    /\ UNCHANGED currentPts

\* ------------------------------------------------- handle(): request part
\* handle() runs processRequest when the client is connected and bytes are
\* available, then goes on to the scheduling part (pc = "sched")
frameVars == <<frame, tframe>>

transportVars == <<useTcpInterleaved, clientRtpPort, clientRtcpPort, clientRtpIpSet,
                   rtpChannel, rtcpChannel, serverUdpPort, udpBound>>

playVars == <<playing, sequenceNumber, udpErrorCount, currentFramerate, frameInterval>>

CanRead == pc = "idle" /\ connected

\* no bytes available: handle() skips processRequest
NoRequest ==
    /\ CanRead
    /\ pc' = "sched"
    /\ out' = NoOut
    /\ UNCHANGED <<connected, transportVars, playVars, timecode_mode, udpTcpFallback, intervalRunning, srvVars, tcVars, frameVars, histVars>>

\* OPTIONS, and any method that is none of the six (501)
Options(validPath, h) ==
    /\ CanRead
    /\ pc' = "sched"
    /\ out' = Resp("OPTIONS", 200, h, validPath)
    /\ UNCHANGED <<connected, transportVars, playVars, timecode_mode, udpTcpFallback, intervalRunning, srvVars, tcVars, frameVars, histVars>>

Unsupported(validPath, h) ==
    /\ CanRead
    /\ pc' = "sched"
    /\ out' = Resp("OTHER", 501, h, validPath)
    /\ UNCHANGED <<connected, transportVars, playVars, timecode_mode, udpTcpFallback, intervalRunning, srvVars, tcVars, frameVars, histVars>>

Describe(validPath, h) ==
    /\ CanRead
    /\ pc' = "sched"
    /\ out' = Resp("DESCRIBE", IF validPath THEN 200 ELSE 404, h, validPath)
    /\ phase' = IF validPath /\ phase = "Init" THEN "Ready" ELSE phase
    /\ UNCHANGED <<connected, transportVars, playVars, timecode_mode, udpTcpFallback, intervalRunning, srvVars, tcVars, frameVars,
                   setupHist, promoted, lastSeq>>

\* SETUP: the Transport line selects TCP-interleaved (lines 292-336)
SetupIsTcp(t) == t.proto = "tcp" \/ udpTcpFallback = 2

\* SETUP, lines 273-404: the status decided while the request is parsed, 0 when
\* parsing goes on to build the response
SetupParseStatus(validPath, t) ==
    IF ~validPath THEN 404
    ELSE IF t.proto = "none" THEN 400
    ELSE IF SetupIsTcp(t) THEN 0
    ELSE IF t.ports = <<>> THEN 400
    ELSE IF t.ports[1] = 0 \/ t.ports[2] = 0 THEN 400
    ELSE 0

\* SETUP without the path test of lines 273-278
SetupModeIgnoringPath(validPath, t) ==
    IF t.proto = "none" THEN useTcpInterleaved
    ELSE IF SetupIsTcp(t) THEN TRUE
    ELSE udpTcpFallback = 2

\* SETUP taking the mode from the Transport line alone
SetupModeAsRequested(validPath, t) ==
    IF ~validPath \/ t.proto = "none" THEN useTcpInterleaved
    ELSE t.proto = "tcp"

\* SETUP, lines 292-348: useTcpInterleaved after the Transport line is parsed
SetupMode(validPath, t) ==
    IF ~validPath \/ t.proto = "none" THEN useTcpInterleaved
    ELSE IF SetupIsTcp(t) THEN TRUE
    ELSE udpTcpFallback = 2

\* SETUP, lines 304-335: the interleaved channels
SetupChannels(validPath, t) ==
    IF validPath /\ t.proto # "none" /\ SetupIsTcp(t)
    THEN IF t.chan # <<>> THEN <<t.chan[1], t.chan[2]>> ELSE <<0, 1>>
    ELSE <<rtpChannel, rtcpChannel>>

\* SETUP, lines 350-365: client ports and address are stored before they are validated
SetupStoresPorts(validPath, t) ==
    validPath /\ t.proto # "none" /\ ~SetupIsTcp(t) /\ t.ports # <<>>

\* SETUP, lines 407-443: the UDP branch binds a fresh server port
SetupBinds(validPath, t) ==
    SetupParseStatus(validPath, t) = 0 /\ ~SetupMode(validPath, t)

SetupStatus(validPath, t, bindOk) ==
    IF SetupParseStatus(validPath, t) # 0 THEN SetupParseStatus(validPath, t)
    ELSE IF SetupBinds(validPath, t) /\ ~bindOk THEN 500
    ELSE 200

\* SETUP, lines 406-443: the Transport header of the 200 response, written from
\* the members the parsing left: interleaved=%d-%d of rtpChannel, rtcpChannel,
\* or client_port=%d-%d;server_port=%d-%d of clientRtpPort, clientRtcpPort,
\* serverRtpPort, serverRtcpPort (uint16_t serverUdpPort and serverUdpPort + 1)
SetupTransportDefaultChannels(tcp, chans, ports, port) ==
    IF tcp
    THEN [proto |-> "tcp", interleaved |-> <<0, 1>>, client_port |-> <<>>, server_port |-> <<>>]
    ELSE [proto |-> "udp", interleaved |-> <<>>, client_port |-> ports,
          server_port |-> <<port, (port + 1) % UINT16_MOD>>]

SetupTransport(tcp, chans, ports, port) ==
    IF tcp
    THEN [proto |-> "tcp", interleaved |-> chans, client_port |-> <<>>, server_port |-> <<>>]
    ELSE [proto |-> "udp", interleaved |-> <<>>, client_port |-> ports,
          server_port |-> <<port, (port + 1) % UINT16_MOD>>]

\* the 200 response to SETUP: the Transport header it carries, and the
\* Transport header of the request it answers
SetupResp(h, validPath, t, transport) ==
    [r \in {"req", "transport"} \cup DOMAIN Resp("SETUP", 200, h, validPath) |->
        IF r = "req" THEN t
        ELSE IF r = "transport" THEN transport
        ELSE Resp("SETUP", 200, h, validPath)[r]]

Setup(validPath, h, t, rnd, bindOk) ==
    LET status == SetupStatus(validPath, t, bindOk)
        stores == SetupStoresPorts(validPath, t)
        binds  == SetupBinds(validPath, t)
        chans  == SetupChannels(validPath, t)
    IN  /\ CanRead
        /\ pc' = "sched"
        /\ useTcpInterleaved' = SetupMode(validPath, t)
        /\ rtpChannel' = chans[1]
        /\ rtcpChannel' = chans[2]
        /\ clientRtpPort' = IF stores THEN t.ports[1] ELSE clientRtpPort
        /\ clientRtcpPort' = IF stores THEN t.ports[2] ELSE clientRtcpPort
        /\ clientRtpIpSet' = (stores \/ clientRtpIpSet)
        /\ serverUdpPort' = IF binds THEN SERVER_PORT_BASE + rnd ELSE serverUdpPort
        /\ udpBound' = IF binds THEN bindOk ELSE udpBound
        /\ out' = IF status = 200
                  THEN SetupResp(h, validPath, t,
                                 SetupTransport(useTcpInterleaved', <<rtpChannel', rtcpChannel'>>,
                                                <<clientRtpPort', clientRtcpPort'>>, serverUdpPort'))
                  ELSE Resp("SETUP", status, h, validPath)
        /\ setupHist' = IF status = 200 THEN "ok"
                        ELSE IF status = 500 /\ setupHist = "none" THEN "failed"
                        ELSE setupHist
        /\ phase' = IF phase = "Paused" \/ (phase = "Init" /\ status = 200)
                    THEN "Ready" ELSE phase
        /\ UNCHANGED <<connected, playVars, timecode_mode, udpTcpFallback, intervalRunning, srvVars, tcVars, frameVars, promoted, lastSeq>>

\* PLAY, lines 452-482
Play(validPath, h) ==
    /\ CanRead
    /\ pc' = "sched"
    /\ out' = Resp("PLAY", IF validPath THEN 200 ELSE 404, h, validPath)
    /\ IF validPath
       THEN /\ playing' = TRUE
            /\ currentFramerate' = RTSP_FPS
            /\ frameInterval' = 1000 \div RTSP_FPS
            /\ udpErrorCount' = 0
            /\ ResetFrameCounter
            /\ sequenceNumber' = 0
            /\ lastSeq' = -1
            /\ phase' = IF phase = "Closed" THEN "Closed" ELSE "Playing"
            /\ intervalRunning' = FALSE
       ELSE UNCHANGED <<playVars, tcVars, lastSeq, phase, intervalRunning>>
    /\ UNCHANGED <<connected, transportVars, timecode_mode, udpTcpFallback, srvVars, frameVars, setupHist, promoted>>

\* PAUSE, lines 483-493
Pause(validPath, h) ==
    /\ CanRead
    /\ pc' = "sched"
    /\ out' = Resp("PAUSE", 200, h, validPath)
    /\ playing' = FALSE
    /\ phase' = IF phase = "Playing" THEN "Paused" ELSE phase
    /\ UNCHANGED <<connected, transportVars, sequenceNumber, udpErrorCount, currentFramerate,
                   frameInterval, timecode_mode, udpTcpFallback, intervalRunning, srvVars, tcVars, frameVars, setupHist, promoted, lastSeq>>

\* TEARDOWN, lines 494-504
Teardown(validPath, h) ==
    /\ CanRead
    /\ pc' = "sched"
    /\ out' = Resp("TEARDOWN", 200, h, validPath)
    /\ playing' = FALSE
    /\ phase' = "Closed"
    /\ UNCHANGED <<connected, transportVars, sequenceNumber, udpErrorCount, currentFramerate,
                   frameInterval, timecode_mode, udpTcpFallback, intervalRunning, srvVars, tcVars, frameVars, setupHist, promoted, lastSeq>>

\* ---------------------------------------------- processRequest: dispatch
\* the method names the dispatch of lines 235-510 looks for, as character codes
OPTIONS == <<79, 80, 84, 73, 79, 78, 83>>
DESCRIBE == <<68, 69, 83, 67, 82, 73, 66, 69>>
SETUP == <<83, 69, 84, 85, 80>>
PLAY == <<80, 76, 65, 89>>
PAUSE == <<80, 65, 85, 83, 69>>
TEARDOWN == <<84, 69, 65, 82, 68, 79, 87, 78>>

\* request lines whose method is none of the six: GET_PARAMETER and
\* PLAY_NOTIFY, as character codes up to the end of the method
OtherMethods == {<<71, 69, 84, 95, 80, 65, 82, 65, 77, 69, 84, 69, 82>>,
                 <<80, 76, 65, 89, 95, 78, 79, 84, 73, 70, 89>>}

\* String::startsWith
startsWith(s, prefix) == Len(s) >= Len(prefix) /\ SubSeq(s, 1, Len(prefix)) = prefix

\* processRequest, lines 235-510: the branch taken for a request line
processRequest(firstLine, validPath, h) ==
    IF startsWith(firstLine, OPTIONS) THEN Options(validPath, h)
    ELSE IF startsWith(firstLine, DESCRIBE) THEN Describe(validPath, h)
    ELSE IF startsWith(firstLine, SETUP)
         THEN \E t \in Transports, rnd \in RandomOffsets, bindOk \in BOOLEAN :
                 Setup(validPath, h, t, rnd, bindOk)
    ELSE IF startsWith(firstLine, PLAY) THEN Play(validPath, h)
    ELSE IF startsWith(firstLine, PAUSE) THEN Pause(validPath, h)
    ELSE IF startsWith(firstLine, TEARDOWN) THEN Teardown(validPath, h)
    ELSE Unsupported(validPath, h)

\* ---------------------------------------------- handle(): scheduling part
\* lines 54-75: the framerate after one adaptation window
\* the adaptation leaving the interval of the target framerate
AdaptedIntervalStale(fr) == 1000 \div RTSP_FPS

\* lines 64 and 72: frameInterval = 1000 / currentFramerate
AdaptedInterval(fr) == 1000 \div fr

\* the adaptation without the max() of line 63
AdaptedFramerateNoFloor(fr, err) ==
    IF err >= RTSP_UDP_ERROR_THRESHOLD
    THEN IF fr > RTSP_MIN_FRAMERATE THEN fr - 2 ELSE fr
    ELSE IF err = 0 /\ fr < RTSP_FPS THEN Min(RTSP_FPS, fr + 1) ELSE fr

AdaptedFramerate(fr, err) ==
    IF err >= RTSP_UDP_ERROR_THRESHOLD
    THEN IF fr > RTSP_MIN_FRAMERATE THEN Max(RTSP_MIN_FRAMERATE, fr - 2) ELSE fr
    ELSE IF err = 0 /\ fr < RTSP_FPS THEN Min(RTSP_FPS, fr + 1) ELSE fr

\* millis() moves on between two calls of handle(): a frame interval has
\* passed since lastFrameTime
TimePasses ==
    /\ pc = "idle"
    /\ intervalRunning
    /\ intervalRunning' = FALSE
    /\ UNCHANGED <<pc, sessVars, timecode_mode, udpTcpFallback, srvVars, tcVars, frameVars, out, histVars>>

IntervalKept(returnsTo) ==
    intervalRunning

\* line 121: lastFrameTime = currentTime once sendRTPFrame is back in handle()
IntervalRestarts(returnsTo) ==
    IF returnsTo = "idle" THEN TRUE ELSE intervalRunning

\* lines 48-128.  windowElapsed: currentTime - lastFramerateAdjustment > 5000;
\* intervalElapsed: currentTime - lastFrameTime >= frameInterval
\* handle() sending frames whether or not the session is playing
ScheduleIgnoringPlaying(windowElapsed, intervalElapsed) ==
    /\ pc = "sched"
    /\ out' = NoOut
    /\ connected
    /\ intervalElapsed => WithinBudget(frame_counter, MaxFrames)
    /\ intervalRunning => ~intervalElapsed
    /\ pc' = IF intervalElapsed THEN "send" ELSE "idle"
    /\ UNCHANGED <<connected, transportVars, playVars, timecode_mode, udpTcpFallback, intervalRunning, srvVars,
                   tcVars, frameVars, histVars>>

Schedule(windowElapsed, intervalElapsed) ==
    LET fr == IF RTSP_ADAPTIVE_FRAMERATE = 1 /\ windowElapsed
              THEN AdaptedFramerate(currentFramerate, udpErrorCount)
              ELSE currentFramerate
    IN  /\ pc = "sched"
        /\ out' = NoOut
        /\ IF playing /\ connected
           THEN /\ intervalElapsed => WithinBudget(frame_counter, MaxFrames)
                /\ intervalRunning => ~intervalElapsed
                /\ currentFramerate' = fr
                /\ frameInterval' = IF fr # currentFramerate THEN AdaptedInterval(fr) ELSE frameInterval
                /\ pc' = IF intervalElapsed THEN "send" ELSE "idle"
                /\ UNCHANGED playing
           ELSE /\ ~windowElapsed /\ ~intervalElapsed
                /\ playing' = FALSE
                /\ pc' = "idle"
                /\ UNCHANGED <<currentFramerate, frameInterval>>
        /\ UNCHANGED <<connected, transportVars, sequenceNumber, udpErrorCount, timecode_mode, udpTcpFallback, intervalRunning, srvVars,
                       tcVars, frameVars, histVars>>

\* the control connection closes (any time; the session only looks at
\* client.connected() where the code does)
Disconnect ==
    /\ connected
    /\ connected' = FALSE
    /\ UNCHANGED <<pc, transportVars, playVars, timecode_mode, udpTcpFallback, intervalRunning, srvVars, tcVars, frameVars, out, histVars>>

\* ------------------------------------------------------------ RTP packets
\* sequenceNumber++ without the overflow protection of lines 710-714
NextSeqNoOverflowFix(seq) == (seq + 1) % UINT16_MOD

\* lines 707-714 and 874-881: sequenceNumber++ on a uint16_t, 0 forced to 1
NextSeq(seq) ==
    LET inc == (seq + 1) % UINT16_MOD
    IN  IF inc = 0 THEN 1 ELSE inc

\* lines 561-565 and 777-781
FragmentSize(len, offset, maxPayload) == Min(len - offset, maxPayload)

\* isLastFragment with > for >=
IsLastFragmentStrict(len, offset, maxPayload) ==
    offset + FragmentSize(len, offset, maxPayload) > len

IsLastFragment(len, offset, maxPayload) ==
    offset + FragmentSize(len, offset, maxPayload) >= len

\* lines 555, 611 and 772, 827: isFirstFragment is set at the top of the
\* function and tested per fragment
IsFirstFragment(offset) == TRUE

\* the RTP/JPEG packet the headers of lines 568-615 / 784-842 describe
Rtp(via, len, offset, maxPayload) ==
    [kind   |-> "rtp",
     via    |-> via,
     chan   |-> IF via = "tcp" THEN rtpChannel ELSE -1,
     seq    |-> sequenceNumber,
     pts    |-> currentPts,
     offset |-> offset,
     size   |-> FragmentSize(len, offset, maxPayload),
     marker |-> IsLastFragment(len, offset, maxPayload),
     key    |-> IsFirstFragment(offset),
     prev   |-> lastSeq,
     len    |-> len,
     nth    |-> (IF via = "tcp" THEN tframe.sent ELSE frame.sent) + 1]

\* -------------------------------------------------- sendRTPFrame: entry
\* lines 524-528: the transport test
SendsByTcp == useTcpInterleaved \/ udpTcpFallback = 2

\* lines 530-534
SendNoPort ==
    /\ pc = "send"
    /\ ~SendsByTcp
    /\ clientRtpPort = 0
    /\ pc' = "idle"
    /\ out' = NoOut
    /\ intervalRunning' = IntervalRestarts("idle")
    /\ UNCHANGED <<connected, transportVars, playVars, timecode_mode, udpTcpFallback, srvVars, tcVars, frameVars, histVars>>

\* lines 536-557: updateTimecodeForFrame, captureForced
SendCaptureUdp(elapsed, fb) ==
    /\ pc = "send"
    /\ ~SendsByTcp
    /\ clientRtpPort # 0
    /\ UpdateTimecode(elapsed)
    /\ IF ~captureForced(fb)
       THEN /\ pc' = "idle"
            /\ frame' = NoFrame
            /\ out' = [kind |-> "capture_failed", fn |-> "sendRTPFrame", fb |-> fb,
                       returns |-> CaptureReturns(fb)]
       ELSE /\ pc' = "udp"
            /\ frame' = [NoFrame EXCEPT !.len = fb.len]
            /\ out' = [kind |-> "captured", fn |-> "sendRTPFrame", fb |-> fb,
                       returns |-> CaptureReturns(fb)]
    /\ intervalRunning' = IntervalRestarts(pc')
    /\ UNCHANGED <<connected, transportVars, playVars, timecode_mode, udpTcpFallback, srvVars, tframe, histVars>>

\* ------------------------------------------- sendRTPFrame: UDP retry loop
\* resetUDPConnection: udp.stop(), udpErrorCount = 0, udp.begin(serverUdpPort)

AfterExhaustNoReset(err) ==
    err + 1

\* lines 677-694: the consecutive-error counter after a fragment was given up
AfterExhaust(err) ==
    IF err + 1 >= RTSP_UDP_RESET_THRESHOLD /\ RTSP_UDP_AUTO_RESET = 1 THEN 0 ELSE err + 1

ExhaustResets(err) ==
    err + 1 >= RTSP_UDP_RESET_THRESHOLD /\ RTSP_UDP_AUTO_RESET = 1

\* lines 659-668: the last attempt failed in endPacket, the client is
\* connected and the fallback is enabled
FallbackTaken(retry) ==
    retry >= RTSP_UDP_MAX_RETRIES /\ connected /\ udpTcpFallback >= 1

InUdpLoop == pc = "udp"

RetriesExhaustedOneLate(retryCount) ==
    retryCount > RTSP_UDP_MAX_RETRIES

\* line 621: while (!packetSent && retryCount < RTSP_UDP_MAX_RETRIES)
RetriesExhausted(retryCount) ==
    retryCount >= RTSP_UDP_MAX_RETRIES

\* lines 624-638: beginPacket fails; rebindOk is the result of the udp.begin
\* of a reset
UdpBeginFail(rebindOk) ==
    LET r         == frame.retry + 1
        resets    == r >= RTSP_UDP_MAX_RETRIES \div 2
        err1      == IF resets THEN 0 ELSE udpErrorCount
        exhausted == RetriesExhausted(r)
    IN  /\ InUdpLoop
        /\ udpErrorCount' = IF exhausted THEN AfterExhaust(err1) ELSE err1
        /\ udpBound' = IF resets \/ (exhausted /\ ExhaustResets(err1)) THEN rebindOk ELSE udpBound
        /\ frame' = [frame EXCEPT !.retry = r, !.ok = (frame.ok /\ ~exhausted)]
        /\ pc' = IF exhausted THEN "udp_release" ELSE "udp"
        /\ out' = [kind |-> "udpfail", step |-> "begin", exhausted |-> exhausted,
                   reset |-> (resets \/ (exhausted /\ ExhaustResets(err1)))]
        /\ UNCHANGED <<connected, playing, useTcpInterleaved, clientRtpPort, clientRtcpPort,
                       clientRtpIpSet, rtpChannel, rtcpChannel, serverUdpPort, sequenceNumber,
                       currentFramerate, frameInterval, timecode_mode, udpTcpFallback, intervalRunning, srvVars, tcVars, tframe, histVars>>

\* lines 640-650: a short udp.write
UdpWriteFail(rebindOk) ==
    LET r         == frame.retry + 1
        exhausted == RetriesExhausted(r)
    IN  /\ InUdpLoop
        /\ udpErrorCount' = IF exhausted THEN AfterExhaust(udpErrorCount) ELSE udpErrorCount
        /\ udpBound' = IF exhausted /\ ExhaustResets(udpErrorCount) THEN rebindOk ELSE udpBound
        /\ frame' = [frame EXCEPT !.retry = r, !.ok = (frame.ok /\ ~exhausted)]
        /\ pc' = IF exhausted THEN "udp_release" ELSE "udp"
        /\ out' = [kind |-> "udpfail", step |-> "write", exhausted |-> exhausted,
                   reset |-> (exhausted /\ ExhaustResets(udpErrorCount))]
        /\ UNCHANGED <<connected, playing, useTcpInterleaved, clientRtpPort, clientRtcpPort,
                       clientRtpIpSet, rtpChannel, rtcpChannel, serverUdpPort, sequenceNumber,
                       currentFramerate, frameInterval, timecode_mode, udpTcpFallback, intervalRunning, srvVars, tcVars, tframe, histVars>>

\* lines 652-672: endPacket fails; on the last attempt the fallback promotes
\* the session to TCP-interleaved
UdpEndFail(rebindOk) ==
    LET r         == frame.retry + 1
        exhausted == RetriesExhausted(r)
        fallback  == FallbackTaken(r)
    IN  /\ InUdpLoop
        /\ useTcpInterleaved' = (useTcpInterleaved \/ fallback)
        /\ rtpChannel' = IF fallback THEN 0 ELSE rtpChannel
        /\ rtcpChannel' = IF fallback THEN 1 ELSE rtcpChannel
        /\ promoted' = (promoted \/ fallback)
        /\ udpErrorCount' = IF exhausted THEN AfterExhaust(udpErrorCount) ELSE udpErrorCount
        /\ udpBound' = IF exhausted /\ ExhaustResets(udpErrorCount) THEN rebindOk ELSE udpBound
        /\ frame' = [frame EXCEPT !.retry = r, !.ok = (frame.ok /\ ~exhausted)]
        /\ pc' = IF exhausted THEN "udp_release" ELSE "udp"
        /\ out' = [kind |-> "udpfail", step |-> "end", exhausted |-> exhausted,
                   reset |-> (exhausted /\ ExhaustResets(udpErrorCount))]
        /\ UNCHANGED <<connected, playing, clientRtpPort, clientRtcpPort, clientRtpIpSet,
                       serverUdpPort, sequenceNumber, currentFramerate, frameInterval,
                       timecode_mode, udpTcpFallback, intervalRunning, srvVars, tcVars, tframe, phase, setupHist, lastSeq>>

\* lines 674, 695-728: the datagram left; next fragment
UdpSendOk ==
    LET size == FragmentSize(frame.len, frame.offset, UdpMaxPayload)
    IN  /\ InUdpLoop
        /\ out' = Rtp("udp", frame.len, frame.offset, UdpMaxPayload)
        /\ udpErrorCount' = IF udpErrorCount > 0 THEN udpErrorCount - 1 ELSE 0
        /\ sequenceNumber' = NextSeq(sequenceNumber)
        /\ lastSeq' = sequenceNumber
        /\ frame' = [frame EXCEPT !.offset = frame.offset + size, !.retry = 0,
                                  !.sent = frame.sent + 1]
        /\ pc' = IF frame.offset + size < frame.len THEN "udp" ELSE "udp_release"
        /\ UNCHANGED <<connected, playing, transportVars, currentFramerate, frameInterval,
                       timecode_mode, udpTcpFallback, intervalRunning, srvVars, tcVars, tframe, phase, setupHist, promoted>>

\* lines 731-739: CameraManager::releaseFrame(fb), then the frame goes out by
\* TCP when the UDP loop gave up
ResendsByTcp ==
    ~frame.ok /\ (useTcpInterleaved \/ udpTcpFallback >= 1) /\ connected

UdpRelease ==
    /\ pc = "udp_release"
    /\ frame' = [frame EXCEPT !.returns = frame.returns + 1]
    /\ pc' = IF ResendsByTcp THEN "tcp_nested" ELSE "udp_tail"
    /\ out' = [kind |-> "fb_return", fn |-> "sendRTPFrame", returns |-> frame.returns + 1]
    /\ UNCHANGED <<connected, transportVars, playVars, timecode_mode, udpTcpFallback, intervalRunning, srvVars, tcVars, tframe, histVars>>

\* line 746: esp_camera_fb_return(fb), and sendRTPFrame returns
UdpTail ==
    /\ pc = "udp_tail"
    /\ frame' = NoFrame
    /\ pc' = "idle"
    /\ out' = [kind |-> "frame_done", fn |-> "sendRTPFrame", returns |-> frame.returns + 1]
    /\ intervalRunning' = IntervalRestarts("idle")
    /\ UNCHANGED <<connected, transportVars, playVars, timecode_mode, udpTcpFallback, srvVars, tcVars, tframe, histVars>>

\* ------------------------------------------------------ sendRTPFrameTCP
\* called from sendRTPFrame's transport test (pc = "send") or after its UDP
\* loop gave up (pc = "tcp_nested")
TcpEntry == (pc = "send" /\ SendsByTcp) \/ pc = "tcp_nested"

TcpReturnsTo(nested) == IF nested THEN "udp_tail" ELSE "idle"

\* lines 752-773: updateTimecodeForFrame, captureForced
TcpCapture(elapsed, fb) ==
    /\ TcpEntry
    /\ UpdateTimecode(elapsed)
    /\ IF ~captureForced(fb)
       THEN /\ pc' = TcpReturnsTo(pc = "tcp_nested")
            /\ tframe' = NoTFrame
            /\ out' = [kind |-> "capture_failed", fn |-> "sendRTPFrameTCP", fb |-> fb,
                       returns |-> CaptureReturns(fb)]
       ELSE /\ pc' = "tcp"
            /\ tframe' = [NoTFrame EXCEPT !.len = fb.len, !.nested = (pc = "tcp_nested")]
            /\ out' = [kind |-> "captured", fn |-> "sendRTPFrameTCP", fb |-> fb,
                       returns |-> CaptureReturns(fb)]
    /\ intervalRunning' = IntervalRestarts(pc')
    /\ UNCHANGED <<connected, transportVars, playVars, timecode_mode, udpTcpFallback, srvVars, frame, histVars>>

\* lines 845-849: the 4-byte '$' frame marker is not written whole
TcpMarkerFail ==
    /\ pc = "tcp"
    /\ pc' = "tcp_release"
    /\ out' = [kind |-> "tcpfail", step |-> "marker", dollar |-> FALSE]
    /\ UNCHANGED <<connected, transportVars, playVars, timecode_mode, udpTcpFallback, intervalRunning, srvVars, tcVars, frameVars, histVars>>

\* lines 852-856: the marker went out, the RTP/JPEG header did not
TcpHeaderFail ==
    /\ pc = "tcp"
    /\ pc' = "tcp_release"
    /\ out' = [kind |-> "tcpfail", step |-> "header", dollar |-> TRUE]
    /\ UNCHANGED <<connected, transportVars, playVars, timecode_mode, udpTcpFallback, intervalRunning, srvVars, tcVars, frameVars, histVars>>

\* lines 858-870: marker and header went out, the payload did not; the loop
\* goes on with the same fragment unless the client is gone.  again tells a
\* failure apart from the failure of the iteration before it
TcpPayloadFail ==
    /\ pc = "tcp"
    /\ pc' = IF connected THEN "tcp" ELSE "tcp_release"
    /\ out' = [kind |-> "tcpfail", step |-> "payload", dollar |-> TRUE,
               again |-> (out.kind = "tcpfail" /\ out.step = "payload" /\ ~out.again)]
    /\ UNCHANGED <<connected, transportVars, playVars, timecode_mode, udpTcpFallback, intervalRunning, srvVars, tcVars, frameVars, histVars>>

\* lines 872-887: the fragment went out; next fragment
TcpSendOk ==
    LET size == FragmentSize(tframe.len, tframe.offset, TcpMaxPayload)
    IN  /\ pc = "tcp"
        /\ out' = Rtp("tcp", tframe.len, tframe.offset, TcpMaxPayload)
        /\ sequenceNumber' = NextSeq(sequenceNumber)
        /\ lastSeq' = sequenceNumber
        /\ tframe' = [tframe EXCEPT !.offset = tframe.offset + size, !.sent = tframe.sent + 1]
        /\ pc' = IF tframe.offset + size < tframe.len THEN "tcp" ELSE "tcp_release"
        /\ UNCHANGED <<connected, playing, transportVars, udpErrorCount, currentFramerate,
                       frameInterval, timecode_mode, udpTcpFallback, intervalRunning, srvVars, tcVars, frame, phase, setupHist, promoted>>

\* lines 893-896: CameraManager::releaseFrame(fb), and sendRTPFrameTCP returns
TcpRelease ==
    /\ pc = "tcp_release"
    /\ tframe' = NoTFrame
    /\ pc' = TcpReturnsTo(tframe.nested)
    /\ out' = [kind |-> "frame_done", fn |-> "sendRTPFrameTCP", returns |-> tframe.returns + 1]
    /\ intervalRunning' = IntervalRestarts(TcpReturnsTo(tframe.nested))
    /\ UNCHANGED <<connected, transportVars, playVars, timecode_mode, udpTcpFallback, srvVars, tcVars, frame, histVars>>

\* ------------------------------------------------------------------- Next
Next ==
    \/ NoRequest
    \/ \E h \in SessionCSeqs : Options(TRUE, h)
    \/ \E h \in SessionCSeqs : Unsupported(TRUE, h)
    \/ \E validPath \in BOOLEAN, h \in SessionCSeqs : Describe(validPath, h)
    \/ \E validPath \in BOOLEAN, h \in SessionCSeqs,
          t \in Transports \cup {[proto |-> "none", chan |-> <<>>, ports |-> <<>>]},
          rnd \in RandomOffsets, bindOk \in BOOLEAN : Setup(validPath, h, t, rnd, bindOk)
    \/ \E validPath \in BOOLEAN, h \in SessionCSeqs : Play(validPath, h)
    \/ \E h \in SessionCSeqs : Pause(TRUE, h)
    \/ \E h \in SessionCSeqs : Teardown(TRUE, h)
    \/ \E windowElapsed \in BOOLEAN, intervalElapsed \in BOOLEAN :
          Schedule(windowElapsed, intervalElapsed)
    \/ Disconnect
    \/ TimePasses
    \/ SendNoPort
    \/ \E elapsed \in WallClocks, fb \in Buffers : SendCaptureUdp(elapsed, fb)
    \/ \E rebindOk \in BOOLEAN : UdpBeginFail(rebindOk)
    \/ \E rebindOk \in BOOLEAN : UdpWriteFail(rebindOk)
    \/ \E rebindOk \in BOOLEAN : UdpEndFail(rebindOk)
    \/ UdpSendOk
    \/ UdpRelease
    \/ UdpTail
    \/ \E elapsed \in WallClocks, fb \in Buffers : TcpCapture(elapsed, fb)
    \/ TcpMarkerFail
    \/ TcpHeaderFail
    \/ TcpPayloadFail
    \/ TcpSendOk
    \/ TcpRelease

Spec == Init /\ [][Next]_vars

\* ------------------------------------------- a session late in a long PLAY
\* The session was set up for UDP, PLAY was answered, and SeqWrapFrames
\* frames went out without a failure: the 16-bit sequence number is about to wrap.
WrapSeqs == {UINT16_MOD - 3, UINT16_MOD - 1}

InitWrap ==
    /\ pc = "idle"
    /\ connected = TRUE
    /\ playing = TRUE
    /\ useTcpInterleaved = FALSE
    /\ clientRtpPort = 5000
    /\ clientRtcpPort = 5001
    /\ clientRtpIpSet = TRUE
    /\ rtpChannel = 0
    /\ rtcpChannel = 1
    /\ serverUdpPort \in {SERVER_PORT_BASE + rnd : rnd \in RandomOffsets}
    /\ udpBound = TRUE
    /\ sequenceNumber \in WrapSeqs
    /\ udpErrorCount = 0
    /\ currentFramerate = RTSP_FPS
    /\ frameInterval = 1000 \div RTSP_FPS
    /\ frame = NoFrame
    /\ tframe = NoTFrame
    /\ out = NoOut
    /\ phase = "Playing"
    /\ setupHist = "ok"
    /\ promoted = FALSE
    /\ lastSeq = sequenceNumber - 1
    /\ timecode_mode = RTSP_TIMECODE_MODE
    /\ udpTcpFallback = RTSP_UDP_TCP_FALLBACK
    /\ intervalRunning = FALSE
    /\ frame_counter = SeqWrapFrames
    /\ last_frame_timestamp = calculatePTS(SeqWrapFrames)
    /\ currentPts = calculatePTS(SeqWrapFrames)
    /\ tcPrev = calculatePTS(U32((UINT16_MOD - 1) \div 3 - 1))
    /\ tcCalls = 2
    /\ ServerInit


\* --------------------------------------------- the TimecodeManager alone
\* generateTimecode and resetFrameCounter called on a TimecodeManager of any
\* timecode mode, fresh, after PtsWrapFrames frames, or after ZeroPtsFrames
\* frames of a frame-counting mode
TcInit ==
    /\ SessionInit
    /\ ServerInit
    /\ timecode_mode \in {0, 1, 2}
    /\ udpTcpFallback = RTSP_UDP_TCP_FALLBACK
    /\ intervalRunning = FALSE
    /\ \/ TimecodeInit
       \/ /\ frame_counter = PtsWrapFrames
          /\ last_frame_timestamp = calculatePTS(PtsWrapFrames)
          /\ currentPts = calculatePTS(PtsWrapFrames)
          /\ tcPrev = calculatePTS(U32(715825 - 1))
          /\ tcCalls = 2
       \/ /\ timecode_mode \in {1, 2}
          /\ frame_counter = ZeroPtsFrames
          /\ last_frame_timestamp = calculatePTS(ZeroPtsFrames)
          /\ currentPts = calculatePTS(ZeroPtsFrames)
          /\ tcPrev = calculatePTS(U32(268435454 - 1))
          /\ tcCalls = 2

TcGenerate(elapsed) ==
    /\ WithinBudget(frame_counter, MaxTcCalls)
    /\ UpdateTimecode(elapsed)
    /\ out' = [kind |-> "timecode"]
    /\ UNCHANGED <<pc, sessVars, timecode_mode, udpTcpFallback, intervalRunning, srvVars, frameVars, histVars>>

TcReset ==
    /\ ResetFrameCounter
    /\ out' = [kind |-> "reset"]
    /\ UNCHANGED <<pc, sessVars, timecode_mode, udpTcpFallback, intervalRunning, srvVars, frameVars, histVars>>

TcNext ==
    \/ \E elapsed \in WallClocks : TcGenerate(elapsed)
    \/ TcReset

TcSpec == TcInit /\ [][TcNext]_vars

\* ------------------------------------------- requests on an idle session
\* Every method with every CSeq header and path, on a session whose frame
\* interval does not elapse
ReqNext ==
    \/ NoRequest
    \/ \E validPath \in BOOLEAN, h \in CSeqHeaders : Options(validPath, h)
    \/ \E validPath \in BOOLEAN, h \in CSeqHeaders : Unsupported(validPath, h)
    \/ \E validPath \in BOOLEAN, h \in CSeqHeaders : Describe(validPath, h)
    \/ \E validPath \in BOOLEAN, h \in CSeqHeaders,
          t \in Transports \cup {[proto |-> "none", chan |-> <<>>, ports |-> <<>>]},
          rnd \in RandomOffsets, bindOk \in BOOLEAN : Setup(validPath, h, t, rnd, bindOk)
    \/ \E validPath \in BOOLEAN, h \in CSeqHeaders : Play(validPath, h)
    \/ \E validPath \in BOOLEAN, h \in CSeqHeaders : Pause(validPath, h)
    \/ \E validPath \in BOOLEAN, h \in CSeqHeaders : Teardown(validPath, h)
    \/ \E firstLine \in OtherMethods, validPath \in BOOLEAN, h \in CSeqHeaders :
          processRequest(firstLine, validPath, h)
    \/ \E windowElapsed \in BOOLEAN : Schedule(windowElapsed, FALSE)
    \/ Disconnect

\* A session in the middle of a degraded PLAY: `failed` frames whose UDP
\* writes failed on both attempts, each resent TCP-interleaved in one
\* fragment, then one adaptation window
DegradedAt(failed) ==
    /\ pc = "idle"
    /\ connected = TRUE
    /\ playing = TRUE
    /\ useTcpInterleaved = FALSE
    /\ clientRtpPort = 5000
    /\ clientRtcpPort = 5001
    /\ clientRtpIpSet = TRUE
    /\ rtpChannel = 0
    /\ rtcpChannel = 1
    /\ serverUdpPort \in {SERVER_PORT_BASE + rnd : rnd \in RandomOffsets}
    /\ udpBound = TRUE
    /\ sequenceNumber = failed
    /\ udpErrorCount = failed
    /\ currentFramerate = RTSP_FPS - 2
    /\ frameInterval = 1000 \div (RTSP_FPS - 2)
    /\ frame = NoFrame
    /\ tframe = NoTFrame
    /\ out = NoOut
    /\ phase = "Playing"
    /\ setupHist = "ok"
    /\ promoted = FALSE
    /\ lastSeq = failed - 1
    /\ timecode_mode = RTSP_TIMECODE_MODE
    /\ udpTcpFallback = RTSP_UDP_TCP_FALLBACK
    /\ intervalRunning = FALSE
    /\ frame_counter = U32(2 * failed)
    /\ last_frame_timestamp = calculatePTS(U32(2 * failed))
    /\ currentPts = calculatePTS(U32(2 * failed))
    /\ tcPrev = calculatePTS(U32(2 * failed - 1))
    /\ tcCalls = 2
    /\ ServerInit

DegradedInit == DegradedAt(RTSP_UDP_ERROR_THRESHOLD)

\* one exhausted fragment short of the automatic reset
NearResetInit == DegradedAt(RTSP_UDP_RESET_THRESHOLD - 1)

ReqInit == Init \/ DegradedInit

ReqSpec == ReqInit /\ [][ReqNext]_vars

\* -------------------------------------------- the steps of a playing session
\* The session was set up (TCP-interleaved, UDP, or UDP with a SETUP rejected
\* for its RTP port 0) and PLAY was answered; no further request arrives.
\* StepSpec starts there, or in the middle of the degraded PLAY of DegradedInit
\* or NearResetInit
StepInit ==
    /\ pc = "idle"
    /\ connected = TRUE
    /\ playing = TRUE
    /\ useTcpInterleaved \in BOOLEAN
    /\ clientRtpPort \in {0, 5000}
    /\ clientRtcpPort = 5001
    /\ clientRtpIpSet = TRUE
    /\ rtpChannel = 0
    /\ rtcpChannel = 1
    /\ serverUdpPort = IF clientRtpPort = 0 THEN 0 ELSE SERVER_PORT_BASE
    /\ udpBound = (clientRtpPort # 0)
    /\ sequenceNumber = 0
    /\ udpErrorCount = 0
    /\ currentFramerate = RTSP_FPS
    /\ frameInterval = 1000 \div RTSP_FPS
    /\ frame = NoFrame
    /\ tframe = NoTFrame
    /\ out = NoOut
    /\ phase = "Playing"
    /\ setupHist = IF clientRtpPort = 0 /\ ~useTcpInterleaved THEN "none" ELSE "ok"
    /\ promoted = FALSE
    /\ lastSeq = -1
    /\ TimecodeInit
    /\ timecode_mode = RTSP_TIMECODE_MODE
    /\ udpTcpFallback = RTSP_UDP_TCP_FALLBACK
    /\ intervalRunning = FALSE
    /\ ServerInit

\* the steps handle() takes once it is past the request part
HandleStep ==
    \/ \E windowElapsed \in BOOLEAN, intervalElapsed \in BOOLEAN :
          Schedule(windowElapsed, intervalElapsed)
    \/ SendNoPort
    \/ \E elapsed \in WallClocks, fb \in Buffers : SendCaptureUdp(elapsed, fb)
    \/ \E rebindOk \in BOOLEAN : UdpBeginFail(rebindOk)
    \/ \E rebindOk \in BOOLEAN : UdpWriteFail(rebindOk)
    \/ \E rebindOk \in BOOLEAN : UdpEndFail(rebindOk)
    \/ UdpSendOk
    \/ UdpRelease
    \/ UdpTail
    \/ \E elapsed \in WallClocks, fb \in Buffers : TcpCapture(elapsed, fb)
    \/ TcpMarkerFail
    \/ TcpHeaderFail
    \/ TcpPayloadFail
    \/ TcpSendOk
    \/ TcpRelease

StepNext ==
    \/ NoRequest
    \/ Disconnect
    \/ TimePasses
    \/ HandleStep

\* the processor keeps executing handle() once it has entered it; nothing is
\* assumed about the results of the network calls
StepSpec ==
    (StepInit \/ DegradedInit \/ NearResetInit) /\ [][StepNext]_vars /\ WF_vars(HandleStep)

\* ------------------------------------------------- the builds of the policy
\* A session from its construction in a build with automatic fallback
\* (RTSP_UDP_TCP_FALLBACK 1) or with TCP forced (2), config.h lines 212-216;
\* requests name a stream path
FallbackPolicies == {RTSP_UDP_TCP_FALLBACK, FORCE_TCP}

PolicyInit ==
    /\ SessionInit
    /\ TimecodeInit
    /\ timecode_mode = RTSP_TIMECODE_MODE
    /\ udpTcpFallback \in FallbackPolicies
    /\ intervalRunning = FALSE
    /\ ServerInit

PolicyNext ==
    \/ NoRequest
    \/ \E h \in SessionCSeqs,
          t \in Transports \cup {[proto |-> "none", chan |-> <<>>, ports |-> <<>>]},
          rnd \in RandomOffsets, bindOk \in BOOLEAN : Setup(TRUE, h, t, rnd, bindOk)
    \/ \E h \in SessionCSeqs : Play(TRUE, h)
    \/ \E h \in SessionCSeqs : Pause(TRUE, h)
    \/ Disconnect
    \/ TimePasses
    \/ HandleStep

PolicySpec == PolicyInit /\ [][PolicyNext]_vars

\* the session late in a long PLAY of InitWrap, with the requests that keep or
\* restart the stream
SpecWrap == InitWrap /\ [][PolicyNext]_vars

\* --------------------------------------------- a playing session over time
\* StepSpec with the passing of time: loop() keeps calling handle(), and
\* five seconds after an adaptation window the next one is due
WindowElapses == \E intervalElapsed \in BOOLEAN : Schedule(TRUE, intervalElapsed)

AdaptSpec ==
    /\ (StepInit \/ DegradedInit)
    /\ [][StepNext]_vars
    /\ WF_vars(HandleStep)
    /\ WF_vars(NoRequest)
    /\ SF_vars(WindowElapses)

\* ---------------------------------------------------------- NanoRTSPServer
\* The server's list of sessions; of each session the server model keeps
\* what handleClients looks at (isConnected), and the playing flag, the
\* transport mode and the sequence number its handle() sets.
NewSession(id) ==
    [id |-> id, connected |-> TRUE, playing |-> FALSE, useTcpInterleaved |-> FALSE,
     sequenceNumber |-> 0]

Ids(cl) == [i \in 1 .. Len(cl) |-> cl[i].id]

\* acceptNewClients without the test of line 48
AcceptNewClientsUnlimited(cl, incoming, id) ==
    IF incoming THEN Append(cl, NewSession(id)) ELSE cl

\* acceptNewClients, lines 37-58: the list after server.available() returned
\* a client (incoming) or none
AcceptNewClients(cl, incoming, id) ==
    IF incoming /\ Len(cl) < MAX_CLIENTS THEN Append(cl, NewSession(id)) ELSE cl

\* removeDisconnectedClients never looking at the last session of the list
RemoveDisconnectedClientsButLast(cl) ==
    IF cl = <<>> THEN cl
    ELSE Append(SelectSeq(SubSeq(cl, 1, Len(cl) - 1), LAMBDA c : c.connected), cl[Len(cl)])

\* handleClients without the call of line 25
RemoveDisconnectedClientsSkipped(cl) == cl

\* removeDisconnectedClients, lines 60-76
RemoveDisconnectedClients(cl) == SelectSeq(cl, LAMBDA c : c.connected)

\* RTSPClientSession::handle of one session, as far as the server model
\* follows it: PLAY sets playing and restarts the sequence numbers, PAUSE and
\* TEARDOWN clear playing, a SETUP for TCP sets the transport mode, a frame
\* that is due (FRAME) goes out in one packet if the session is playing
HandleSession(c, req) ==
    IF req = "PLAY" THEN [c EXCEPT !.playing = TRUE, !.sequenceNumber = 0]
    ELSE IF req \in {"PAUSE", "TEARDOWN"} THEN [c EXCEPT !.playing = FALSE]
    ELSE IF req = "SETUP_TCP" THEN [c EXCEPT !.useTcpInterleaved = TRUE]
    ELSE IF req = "FRAME" /\ c.playing
         THEN [c EXCEPT !.sequenceNumber = NextSeq(c.sequenceNumber)]
    ELSE c

\* handleClients, lines 28-34, on a list without its disconnected sessions:
\* the session with id reqFor has a request to read
HandleAllButFirst(cl, reqFor, req) ==
    [i \in 1 .. Len(cl) |->
        IF i # 1 /\ cl[i].id = reqFor THEN HandleSession(cl[i], req) ELSE cl[i]]

\* handleClients stepping every session with the request of one
HandleAllShared(cl, reqFor, req) ==
    [i \in 1 .. Len(cl) |-> IF reqFor # 0 THEN HandleSession(cl[i], req) ELSE cl[i]]

HandleAll(cl, reqFor, req) ==
    [i \in 1 .. Len(cl) |->
        IF cl[i].id = reqFor THEN HandleSession(cl[i], req) ELSE cl[i]]

\* the sessions handleClients steps: the connected ones, in list order
Stepped(cl) == Ids(SelectSeq(cl, LAMBDA c : c.connected))

SessionRequests == {"PLAY", "PAUSE"}

\* handleClients.  incoming: a connection is waiting in server.available();
\* reqFor / req: the live session that has a request to read, 0 for none.
\* srvOut: whether the waiting connection was refused, the bytes written to
\* it, the session created for it, the sessions stepped
HandleClients(incoming, reqFor, req) ==
    LET id       == sessionCounter + 1
        accepted == AcceptNewClients(clients, incoming, id)
        created  == incoming /\ Len(accepted) > Len(clients)
        live     == RemoveDisconnectedClients(accepted)
    IN  /\ loopAt = "loop"
        /\ incoming /\ Len(clients) < MAX_CLIENTS => sessionCounter < MaxSessions
        /\ reqFor = 0 <=> req = "none"
        /\ reqFor # 0 => \E i \in 1 .. Len(live) : live[i].id = reqFor
        /\ clients' = HandleAll(live, reqFor, req)
        /\ sessionCounter' = IF created THEN id ELSE sessionCounter
        /\ srvOut' = [incoming |-> incoming,
                      refused  |-> incoming /\ ~created,
                      written  |-> 0,
                      created  |-> IF created THEN id ELSE 0,
                      stepped  |-> Ids(live)]
        /\ UNCHANGED <<sessionVars, loopVars>>

\* the control connection of session i closes between two ticks
ClientCloses(i) ==
    /\ i \in 1 .. Len(clients)
    /\ clients[i].connected
    /\ clients' = [clients EXCEPT ![i].connected = FALSE]
    /\ UNCHANGED <<sessionCounter, srvOut, sessionVars, loopVars>>

SrvNext ==
    \/ \E incoming \in BOOLEAN, reqFor \in 0 .. MaxSessions, req \in SessionRequests \cup {"none"} :
          HandleClients(incoming, reqFor, req)
    \/ \E i \in 1 .. MAX_CLIENTS : ClientCloses(i)

SrvSpec == Init /\ [][SrvNext]_vars

\* ------------------------------------------------ sessions side by side
\* Up to MaxPeers sessions; in a tick one of them has a request to read or
\* a frame to send, the others have nothing to do
PeerEvents == {"PLAY", "PAUSE", "SETUP_TCP", "FRAME"}

PeerTick(incoming, reqFor, ev) ==
    /\ incoming => sessionCounter < MaxPeers
    /\ ev = "FRAME" =>
           \A i \in 1 .. Len(clients) :
               clients[i].id = reqFor => clients[i].sequenceNumber < MaxPeerFrames
    /\ HandleClients(incoming, reqFor, ev)

PeerNext ==
    \/ \E incoming \in BOOLEAN, reqFor \in 0 .. MaxPeers, ev \in PeerEvents \cup {"none"} :
          PeerTick(incoming, reqFor, ev)
    \/ \E i \in 1 .. MaxPeers : ClientCloses(i)

PeerSpec == Init /\ [][PeerNext]_vars

\* ------------------------------------------------ loop() and the HTTP viewer
\* main.cpp lines 176-224: each pass of loop() calls rtspServer->handleClients()
\* and httpMJPEGServer.handleClient(); the health and WiFi checks and the
\* delay keep no state of the servers
HttpRequests == {"none", "GET /mjpeg", "GET /other"}

\* HTTPMJPEGServer::handleClient, lines 33-36, and the entry of handleMJPEG,
\* lines 38-47 (captureCb is set in setup(), main.cpp line 121)
HttpHandleClient(request) ==
    /\ loopAt = "loop"
    /\ ~httpClientConnected
    /\ IF request = "GET /mjpeg"
       THEN /\ httpClientConnected' = TRUE
            /\ httpOut' = "200 multipart/x-mixed-replace"
            /\ loopAt' = "mjpeg"
       ELSE /\ httpOut' = (IF request = "none" THEN "none" ELSE "404")
            /\ UNCHANGED <<httpClientConnected, loopAt>>
    /\ UNCHANGED <<clients, sessionCounter, srvOut, sessionVars>>

\* handleMJPEG, lines 48-66: one pass of while (server.client().connected());
\* the parts sent are told apart by their parity
MjpegPart(captured) ==
    /\ loopAt = "mjpeg"
    /\ httpClientConnected
    /\ httpOut' = IF ~captured THEN "capture_failed"
                  ELSE IF httpOut = "part" THEN "next part" ELSE "part"
    /\ UNCHANGED <<loopAt, httpClientConnected, clients, sessionCounter, srvOut, sessionVars>>

\* handleMJPEG, lines 48 and 67: the viewer is gone, the handler returns to loop()
MjpegReturns ==
    /\ loopAt = "mjpeg"
    /\ ~httpClientConnected
    /\ loopAt' = "loop"
    /\ httpOut' = "none"
    /\ UNCHANGED <<httpClientConnected, clients, sessionCounter, srvOut, sessionVars>>

\* the HTTP viewer closes its connection
HttpClientCloses ==
    /\ httpClientConnected
    /\ httpClientConnected' = FALSE
    /\ UNCHANGED <<loopAt, httpOut, clients, sessionCounter, srvOut, sessionVars>>

\* the processor keeps executing loop() and what it has called
LoopStep ==
    \/ \E incoming \in BOOLEAN, reqFor \in 0 .. MaxPeers, ev \in PeerEvents \cup {"none"} :
          PeerTick(incoming, reqFor, ev)
    \/ \E request \in HttpRequests : HttpHandleClient(request)
    \/ \E captured \in BOOLEAN : MjpegPart(captured)
    \/ MjpegReturns

LoopNext ==
    \/ LoopStep
    \/ \E i \in 1 .. MaxPeers : ClientCloses(i)
    \/ HttpClientCloses

LoopSpec == Init /\ [][LoopNext]_vars /\ WF_vars(LoopStep)

\* ================================================================ claims
IsFirstPacketOfPlay == out.kind = "rtp" /\ out.prev = -1

\* C1: after a PLAY that follows a successful SETUP, the first RTP packet
\* (UDP or TCP-interleaved) carries sequence number 1, never 0, and a PTS > 0.
C1_FirstPacketSeqOne ==
    (IsFirstPacketOfPlay /\ setupHist = "ok") => (out.seq = 1 /\ ~U32IsZero(out.pts))

\* C2: a frame buffer obtained by sendRTPFrame or sendRTPFrameTCP has been
\* returned to the frame source exactly once when the function returns, and
\* never more than once before.
C2_FrameReturnedOnce ==
    /\ out.kind = "frame_done" => out.returns = 1
    /\ frame.returns <= 1
    /\ tframe.returns <= 1

\* C3: with the fallback enabled and the client connected, when the last of
\* the RTSP_UDP_MAX_RETRIES attempts of a fragment fails (in begin, write or
\* end) the transport mode is TCP-interleaved.
C3_ExhaustedPromotes ==
    (out.kind = "udpfail" /\ out.exhausted /\ connected /\ udpTcpFallback >= 1)
        => useTcpInterleaved

\* C4: once the fallback has promoted the session to TCP-interleaved, its
\* transport mode is never UDP again.
C4_PromotionIsFinal == promoted => useTcpInterleaved

\* C5: an RTP packet goes out TCP-interleaved exactly when the mode is
\* TCP-interleaved, and no '$' frame marker is written while the mode is UDP.
C5_OneTransport ==
    /\ out.kind = "rtp" => ((out.via = "tcp") <=> useTcpInterleaved)
    /\ (out.kind = "tcpfail" /\ out.dollar) => useTcpInterleaved

\* C6: while the only SETUP outcome so far is a failed bind (500) and no
\* SETUP has succeeded, no RTP packet is sent.
C6_NoStreamAfterFailedBind == out.kind = "rtp" => setupHist # "failed"

IsRequestStep(method, status) ==
    /\ pc = "idle"
    /\ pc' = "sched"
    /\ out'.kind = "resp"
    /\ out'.method = method
    /\ out'.status = status

\* C7: a SETUP answered 400 leaves transport mode, client address and ports,
\* interleaved channels, playing flag and counters unchanged.
C7_BadRequestKeepsState ==
    [][IsRequestStep("SETUP", 400) =>
          UNCHANGED <<useTcpInterleaved, clientRtpIpSet, clientRtpPort, clientRtcpPort,
                      rtpChannel, rtcpChannel, playing, sequenceNumber, udpErrorCount,
                      frame_counter>>]_vars

\* C8: a PLAY received while Paused (no SETUP since the PAUSE) keeps the RTP
\* sequence number, the Timecode frame counter and last PTS, the UDP error
\* counter and the adaptive framerate.
C8_ResumeKeepsCounters ==
    [][(phase = "Paused" /\ IsRequestStep("PLAY", 200)) =>
          UNCHANGED <<sequenceNumber, frame_counter, last_frame_timestamp, udpErrorCount,
                      currentFramerate>>]_vars

\* C9: within a PLAY phase every transmitted packet carries the sequence
\* number of the packet before it plus 1, on either path and across the
\* fallback, and 1 after 65535.
C9_SeqIncrements ==
    (out.kind = "rtp" /\ out.prev # -1)
        => out.seq = IF out.prev = UINT16_MOD - 1 THEN 1 ELSE out.prev + 1

\* the packet after 65535 went out TCP-interleaved after the fallback
C9_Witness ==
    out.kind = "rtp" /\ out.prev = UINT16_MOD - 1 /\ out.via = "tcp" /\ promoted

MaxUnwrappedPts == <<UINT16_MOD - 1, UINT16_MOD - 1 - FramePeriod>>

C11_NoRtpAfterTeardown == phase = "Closed" => out.kind # "rtp"

\* C12: after TEARDOWN has been processed the session holds no UDP binding.
C12_TeardownReleasesUdp == phase = "Closed" => ~udpBound

\* a CSeq header whose value is spaces and decimal digits, with a digit
WellFormedCSeq(h) ==
    /\ h.present
    /\ \A i \in 1 .. Len(h.text) : h.text[i] = 32 \/ h.text[i] \in 48 .. 57
    /\ \E i \in 1 .. Len(h.text) : h.text[i] \in 48 .. 57

\* the number its digits denote, most significant first
RECURSIVE DecimalOf(_)
DecimalOf(ds) == IF ds = <<>> THEN 0 ELSE DecimalOf(SubSeq(ds, 1, Len(ds) - 1)) * 10 + (ds[Len(ds)] - 48)

CSeqSent(h) == DecimalOf(SelectSeq(h.text, LAMBDA c : c \in 48 .. 57))

EchoesCSeq(resp) == WellFormedCSeq(resp.hdr) => resp.cseq = CSeqSent(resp.hdr)

\* C13: TEARDOWN is answered 200 OK with the request's CSeq in every session
\* state (never set up, set up, playing, paused).
C13_TeardownAlwaysOk ==
    (out.kind = "resp" /\ out.method = "TEARDOWN") => (out.status = 200 /\ EchoesCSeq(out))

\* a paused session answered TEARDOWN with the CSeq 42 of the request
C13_Witness ==
    /\ out.kind = "resp"
    /\ out.method = "TEARDOWN"
    /\ out.found.phase = "Paused"
    /\ out.status = 200
    /\ out.cseq = 42

\* C14: a PLAY on a valid path that follows a SETUP sets the RTP sequence
\* number to 0, the adaptive framerate to RTSP_FPS, the UDP error counter to 0
\* and the Timecode frame counter to 0, and marks the session playing.
C14_PlayResets ==
    [][(IsRequestStep("PLAY", 200) /\ setupHist = "ok") =>
          /\ sequenceNumber' = 0
          /\ currentFramerate' = RTSP_FPS
          /\ udpErrorCount' = 0
          /\ frame_counter' = U32Zero
          /\ playing']_vars

\* the PLAY found every one of the counters away from its reset value
C14_Witness ==
    /\ out.kind = "resp"
    /\ out.method = "PLAY"
    /\ out.status = 200
    /\ setupHist = "ok"
    /\ out.found.seq # 0
    /\ out.found.fps # RTSP_FPS
    /\ out.found.err # 0
    /\ out.found.fc # U32Zero
    /\ sequenceNumber = 0
    /\ currentFramerate = RTSP_FPS
    /\ udpErrorCount = 0
    /\ frame_counter = U32Zero
    /\ playing

\* C15: the server holds at most 5 sessions.
C15_AtMostFiveSessions == Len(clients) <= 5

\* five sessions, and a sixth connection was turned away
C15_Witness == Len(clients) = 5 /\ srvOut.refused

RefusalTick(reqFor, req) == Len(clients) >= MAX_CLIENTS /\ HandleClients(TRUE, reqFor, req)

\* C16: a connection arriving while the server holds the maximum number of
\* sessions is closed with nothing written to it and no session created; every
\* session connected before is kept, changed only by its own step, and all of
\* them are stepped in that tick.
C16_RefusalLeavesSessions ==
    [][\A reqFor \in 0 .. MaxSessions, req \in SessionRequests \cup {"none"} :
          RefusalTick(reqFor, req) =>
              /\ srvOut'.refused
              /\ srvOut'.written = 0
              /\ srvOut'.created = 0
              /\ sessionCounter' = sessionCounter
              /\ srvOut'.stepped = Stepped(clients)
              /\ \A i \in 1 .. Len(clients) :
                    clients[i].connected =>
                        \E j \in 1 .. Len(clients') :
                            clients'[j] = IF clients[i].id = reqFor
                                          THEN HandleSession(clients[i], req)
                                          ELSE clients[i]]_vars

\* a refusal in a tick that stepped five sessions, the oldest of them playing
C16_Witness ==
    /\ srvOut.refused
    /\ Len(srvOut.stepped) = MAX_CLIENTS
    /\ Len(clients) = MAX_CLIENTS
    /\ clients[1].playing

\* C17: every session step returns: once handle() is entered it gets back to
\* its caller, whatever results the network calls return.
C17_StepReturns == (pc # "idle") ~> (pc = "idle")

\* a buffer that fails the validation of C18
FailsValidation(fb) ==
    /\ fb.got
    /\ fb.len = 0 \/ ~fb.dims \/ ~fb.soi \/ (fb.len >= 4 /\ ~fb.eoi)

\* C18: a captured buffer that fails validation (zero length or dimensions,
\* no SOI at offset 0, or no EOI in its last two bytes when it has 4 bytes or
\* more) is a capture failure, is not fragmented, and is returned exactly once.
C18_InvalidBufferNotSent ==
    (out.kind \in {"captured", "capture_failed"} /\ FailsValidation(out.fb))
        => (out.kind = "capture_failed" /\ out.returns = 1)

CeilDiv(a, b) == (a + b - 1) \div b

\* C19: a frame of S bytes sent over UDP goes out in ceil(S/P) packets, the
\* n-th at offset (n-1)*P, with the marker bit on the last and on no other.
C19_FragmentsInOrder ==
    /\ (out.kind = "rtp" /\ out.via = "udp") =>
          /\ out.offset = (out.nth - 1) * UdpMaxPayload
          /\ out.nth <= CeilDiv(out.len, UdpMaxPayload)
          /\ out.marker <=> (out.nth = CeilDiv(out.len, UdpMaxPayload))
    /\ (pc = "udp_release" /\ frame.ok) => frame.sent = CeilDiv(frame.len, UdpMaxPayload)

\* the third and last packet of a frame of two full fragments and a rest
C19_Witness ==
    /\ out.kind = "rtp"
    /\ out.via = "udp"
    /\ out.len = 2 * UdpMaxPayload + (TcpMaxPayload + 1 - 2 * UdpMaxPayload)
    /\ out.nth = 3
    /\ out.offset = 2 * UdpMaxPayload
    /\ out.marker
    /\ pc = "udp_release"
    /\ frame.sent = 3

C21_CSeqEchoed ==
    out.kind = "resp" =>
        out.cseq = (IF WellFormedCSeq(out.hdr) THEN CSeqSent(out.hdr) ELSE DEFAULT_CSEQ)

\* C22: the 200 response to SETUP echoes the negotiated transport.  In UDP
\* mode it carries client_port=A-B as the request gave it and
\* server_port=P-(P+1) with P the port the session has just bound; in TCP
\* mode it carries interleaved=c1-c2, the request's channel pair, or 0-1 when
\* the request named none.
C22_SetupEchoesTransport ==
    (out.kind = "resp" /\ out.method = "SETUP" /\ out.status = 200) =>
        IF out.req.proto = "tcp"
        THEN /\ out.transport.proto = "tcp"
             /\ out.transport.interleaved =
                    (IF out.req.chan # <<>> THEN out.req.chan ELSE <<0, 1>>)
        ELSE /\ out.transport.proto = "udp"
             /\ out.transport.client_port = out.req.ports
             /\ udpBound
             /\ out.transport.server_port = <<serverUdpPort, serverUdpPort + 1>>

\* a SETUP naming the channels 2-3 was answered 200
C22_Witness ==
    /\ out.kind = "resp"
    /\ out.method = "SETUP"
    /\ out.status = 200
    /\ out.req.chan = <<2, 3>>
    /\ out.transport.interleaved = <<2, 3>>

\* C23: in a build whose policy forces TCP (RTSP_UDP_TCP_FALLBACK = 2), every
\* SETUP answered 200 leaves the session TCP-interleaved whatever Transport
\* the request carried, no UDP port is ever bound, and no RTP packet is sent
\* by UDP.
C23_ForcedTcp ==
    udpTcpFallback = FORCE_TCP =>
        /\ (out.kind = "resp" /\ out.method = "SETUP" /\ out.status = 200) =>
               (useTcpInterleaved /\ out.transport.proto = "tcp")
        /\ ~udpBound
        /\ out.kind = "rtp" => out.via = "tcp"
        /\ out.kind # "udpfail"

\* with TCP forced, a SETUP asking for UDP on the client ports 5000-5001 was
\* answered 200
C23_Witness ==
    /\ udpTcpFallback = FORCE_TCP
    /\ out.kind = "resp"
    /\ out.method = "SETUP"
    /\ out.status = 200
    /\ out.req.proto = "udp"
    /\ out.req.ports = <<5000, 5001>>
    /\ useTcpInterleaved

C25_PtsNeverZero == out.kind = "timecode" => ~U32IsZero(currentPts)

\* C26: a request whose method is none of OPTIONS, DESCRIBE, SETUP, PLAY,
\* PAUSE, TEARDOWN is answered 501 and leaves the session state unchanged.
C26_OtherMethodNotImplemented ==
    [][\A firstLine \in OtherMethods, validPath \in BOOLEAN, h \in CSeqHeaders :
          processRequest(firstLine, validPath, h) =>
              /\ out'.kind = "resp"
              /\ out'.status = 501
              /\ UNCHANGED <<connected, transportVars, playVars, frame_counter,
                             last_frame_timestamp>>]_vars

\* the sessions whose control connection is open
OpenConnections(cl) == {i \in 1 .. Len(cl) : cl[i].connected}

\* C27: a new connection is refused only when 5 clients with an open control
\* connection are being served: one that arrives while fewer than 5 clients
\* have an open connection is given a session.
C27_RefusedOnlyWhenFull ==
    [][\A reqFor \in 0 .. MaxSessions, req \in SessionRequests \cup {"none"} :
          (HandleClients(TRUE, reqFor, req)
             /\ Cardinality(OpenConnections(clients)) < MAX_CLIENTS) =>
              (~srvOut'.refused /\ srvOut'.created # 0)]_vars

\* C28: on the TCP-interleaved path a failed or short write (interleaving
\* marker, RTP header or payload) ends the frame: the loop is left, so no
\* fragment is written a second time and nothing more of the frame is written.
C28_TcpFailureAborts == out.kind = "tcpfail" => pc # "tcp"

\* C29: udpErrorCount changes only in these ways: it goes up by one when a
\* fragment's retries are exhausted, down by one (never below 0) when a
\* fragment is sent, and to 0 only by PLAY or when it reaches the reset
\* threshold.
C29_ErrorCountSteps ==
    [][udpErrorCount' # udpErrorCount =>
          \/ /\ udpErrorCount' = udpErrorCount + 1
             /\ out'.kind = "udpfail" /\ out'.exhausted
          \/ /\ udpErrorCount' = udpErrorCount - 1
             /\ udpErrorCount' >= 0
             /\ out'.kind = "rtp" /\ out'.via = "udp"
          \/ /\ udpErrorCount' = 0
             /\ \/ out'.kind = "resp" /\ out'.method = "PLAY" /\ out'.status = 200
                \/ /\ out'.kind = "udpfail" /\ out'.exhausted
                   /\ udpErrorCount + 1 >= RTSP_UDP_RESET_THRESHOLD]_vars

\* C30: a session sends RTP only while playing: none before the first PLAY,
\* and none after a PAUSE has been processed until the next PLAY.
C30_RtpOnlyWhilePlaying ==
    out.kind = "rtp" => (playing /\ phase \notin {"Init", "Ready", "Paused"})

\* PAUSE was processed on a session that was playing and had sent packets
C30_Witness ==
    /\ out.kind = "resp"
    /\ out.method = "PAUSE"
    /\ out.status = 200
    /\ out.found.phase = "Playing"
    /\ out.found.seq > 0
    /\ ~playing
    /\ phase = "Paused"

\* C31: a server tick accepts at most one new connection, judged on the list
\* as the tick found it, then removes the sessions whose control connection
\* is closed, then steps every remaining session exactly once.
C31_TickOrder ==
    [][\A incoming \in BOOLEAN, reqFor \in 0 .. MaxSessions,
          req \in SessionRequests \cup {"none"} :
          HandleClients(incoming, reqFor, req) =>
              LET accepts == incoming /\ Len(clients) < MAX_CLIENTS
              IN  /\ (srvOut'.created # 0) = accepts
                  /\ Len(clients') = Cardinality(OpenConnections(clients))
                                     + (IF accepts THEN 1 ELSE 0)
                  /\ \A j \in 1 .. Len(clients') : clients'[j].connected
                  /\ srvOut'.stepped = Ids(clients')
                  /\ \A j, k \in 1 .. Len(srvOut'.stepped) :
                        j # k => srvOut'.stepped[j] # srvOut'.stepped[k]]_vars

\* a tick created session 3 and stepped it with the one session that was
\* left; an earlier session had been removed
C31_Witness ==
    /\ srvOut.created = 3
    /\ Len(clients) = 2
    /\ srvOut.stepped = Ids(clients)
    /\ clients[2].id = 3

\* C32: a session whose control connection has closed is removed from the
\* list by the next tick, once (the list never holds an id twice and no id
\* comes back), and that tick does not step it.
C32_ClosedSessionRemoved ==
    [][\A incoming \in BOOLEAN, reqFor \in 0 .. MaxSessions,
          req \in SessionRequests \cup {"none"} :
          HandleClients(incoming, reqFor, req) =>
              /\ \A i \in 1 .. Len(clients) :
                    ~clients[i].connected =>
                        /\ \A j \in 1 .. Len(clients') : clients'[j].id # clients[i].id
                        /\ \A j \in 1 .. Len(srvOut'.stepped) :
                              srvOut'.stepped[j] # clients[i].id
              /\ \A j, k \in 1 .. Len(clients') : j # k => clients'[j].id # clients'[k].id
              /\ \A j \in 1 .. Len(clients') :
                    \/ \E i \in 1 .. Len(clients) : clients[i].id = clients'[j].id
                    \/ clients'[j].id = sessionCounter + 1]_vars

\* session 1 closed and a tick without a new connection removed it: session 2
\* alone is left and was stepped
C32_Witness ==
    /\ sessionCounter = 2
    /\ Len(clients) = 1
    /\ clients[1].id = 2
    /\ srvOut.stepped = <<2>>
    /\ srvOut.created = 0
    /\ ~srvOut.incoming

\* C33: in every reachable state the adaptive framerate lies between
\* RTSP_MIN_FRAMERATE and RTSP_FPS inclusive.
C33_FramerateInRange ==
    RTSP_MIN_FRAMERATE <= currentFramerate /\ currentFramerate <= RTSP_FPS

\* with the error counter at the threshold the framerate was reduced twice,
\* 13 to 11 to the floor
C33_Witness ==
    /\ currentFramerate = RTSP_MIN_FRAMERATE
    /\ udpErrorCount >= RTSP_UDP_ERROR_THRESHOLD
    /\ playing
    /\ pc = "idle"

\* C34: in every reachable state the frame interval is 1000 / current
\* framerate (integer division, ms): adaptation and PLAY recompute it with
\* the framerate.
C34_IntervalFollowsFramerate == frameInterval = 1000 \div currentFramerate

\* the adaptation reduced the framerate 13 to 11 and the interval to 90 ms
C34_Witness ==
    /\ currentFramerate = RTSP_FPS - 4
    /\ frameInterval = 90
    /\ playing

\* no send has just failed, and the session is playing on an open connection
PlayingWithoutFailure ==
    /\ playing
    /\ connected
    /\ out.kind \notin {"udpfail", "tcpfail", "capture_failed"}

\* C35: while a session is playing, if from some point on no fragment send
\* fails, the adaptive framerate eventually returns to RTSP_FPS.  Stated for
\* a session that delivers TCP-interleaved from that point on, where the
\* recovery does not depend on how many more frames go out.
C35_FramerateRecovers ==
    <>[](PlayingWithoutFailure /\ useTcpInterleaved) => []<>(currentFramerate = RTSP_FPS)

\* C36: with the automatic reset enabled, a fragment given up with the
\* consecutive-error counter at RTSP_UDP_RESET_THRESHOLD resets the UDP socket
\* and clears the counter, so between two frame sends the counter is below
\* the threshold.  (A beginPacket failure on the last attempt has already
\* reset the socket and cleared the counter before it is counted.)
C36_CounterBelowReset ==
    [][/\ pc' = "idle" => udpErrorCount' < RTSP_UDP_RESET_THRESHOLD
       /\ ( /\ out'.kind = "udpfail" /\ out'.exhausted
            /\ pc = "udp" /\ out'.step # "begin"
            /\ udpErrorCount + 1 >= RTSP_UDP_RESET_THRESHOLD )
          => (out'.reset /\ udpErrorCount' = 0)]_vars

C36_Witness ==
    /\ out.kind = "udpfail" /\ out.exhausted /\ out.step = "write"
    /\ out.reset /\ udpErrorCount = 0
    /\ pc = "udp_release"

\* C37: a fragment on the UDP path gets at most RTSP_UDP_MAX_RETRIES send
\* attempts: an attempt starts only with fewer failed attempts than that for
\* the fragment, and only while no fragment of the frame has been given up;
\* the failure that uses up the attempts leaves the UDP loop, and a datagram
\* goes out only for a frame with no fragment given up.
C37_RetriesBounded ==
    /\ frame.retry <= RTSP_UDP_MAX_RETRIES
    /\ InUdpLoop => (frame.retry < RTSP_UDP_MAX_RETRIES /\ frame.ok)
    /\ (out.kind = "udpfail" /\ frame.retry >= RTSP_UDP_MAX_RETRIES) => (~InUdpLoop /\ ~frame.ok)
    /\ (out.kind = "rtp" /\ out.via = "udp") => frame.ok

\* the attempts of the second fragment ran out with part of the frame unsent
C37_Witness ==
    /\ out.kind = "udpfail" /\ out.exhausted
    /\ frame.retry = RTSP_UDP_MAX_RETRIES
    /\ frame.sent >= 1 /\ frame.offset < frame.len
    /\ pc = "udp_release"

C39_RtspKeepsTicking == []<>(loopAt = "loop")

\* C40: the keyframe tag of the JPEG header (bit 0x80 of the type-specific
\* byte) is set on the first fragment of a frame and on no later one, on
\* the UDP and on the TCP-interleaved path.
C40_KeyframeOnFirstOnly ==
    out.kind = "rtp" => (out.key <=> out.offset = 0)

====
